---- MODULE Spec2Model ----
(***************************************************************************)
(* A model of nexus-input-transformation: the post-order reduction over a *)
(* tree of argument definitions (input-type-traversal) and the            *)
(* InputTransformer built on it, which compiles the annotations found in  *)
(* the tree into one function over a resolver's argument bag.             *)
(*                                                                         *)
(* JavaScript values are tagged records.  Objects keep their entries in   *)
(* insertion order; objects and arrays that exist at request time live in *)
(* a heap, so that allocation and mutation are observable.  A compiled    *)
(* function (a closure) is the record of what it closed over, and Call    *)
(* runs it.                                                                *)
(***************************************************************************)
EXTENDS Integers, Sequences, FiniteSets, TLC

VARIABLES
    argDefs,        \* the Record<string, ArgDef> handed to buildResolverMiddleware
    extensionName,  \* InputTransformer.extensionName of the instance
    middleware,     \* what buildResolverMiddleware returned (NotBuilt before)
    heap,           \* the objects and arrays allocated at request time
    bag,            \* the argument bag of the request, as a plain value
    args,           \* the reference to that bag in the heap
    results,        \* the outcome of every call of the compiled function on args
    visitor,        \* a reducer handed to reduceOverArgDefs by another caller
    walk            \* what reduceOverArgDefs returned to that caller, and the
                    \* calls of the visitor it made

vars == <<argDefs, extensionName, middleware, heap, bag, args, results, visitor, walk>>

(***************************************************************************)
(* Bounds of the model.                                                    *)
(***************************************************************************)
\* nesting depth of input object types below the root arguments
MaxDepth == 2
\* length of the lists in an argument bag
MaxLen == 2
\* number of nodes of the tree that carry an extensions object
MaxAnnotated == 2
\* number of calls of the compiled function on one argument bag
MaxCalls == 2

(***************************************************************************)
(* JavaScript values.                                                      *)
(***************************************************************************)
Undefined == [t |-> "undefined"]
Null == [t |-> "null"]
Str(s) == [t |-> "string", v |-> s]
Num(n) == [t |-> "number", v |-> n]
Bool(b) == [t |-> "boolean", v |-> b]
Obj(es) == [t |-> "object", entries |-> es]
Arr(xs) == [t |-> "array", items |-> xs]
Ref(a) == [t |-> "ref", addr |-> a]
NotBuilt == [t |-> "notbuilt"]

IsNullish(v) == v = Undefined \/ v = Null

\* the one element of a set: { e : x \in {v} } names v as x in e, so that a
\* value is computed once
The(S) == CHOOSE x \in S : TRUE

\* An object's own properties, in insertion order.
Entry(k, v) == [key |-> k, value |-> v]

HasKey(es, k) == \E i \in 1..Len(es) : es[i].key = k

Get(es, k) ==
    IF HasKey(es, k)
    THEN es[CHOOSE i \in 1..Len(es) : es[i].key = k].value
    ELSE Undefined

\* Defining a property: an existing key keeps its place, a new key is appended.
Put(es, k, v) ==
    IF HasKey(es, k)
    THEN [i \in 1..Len(es) |-> IF es[i].key = k THEN Entry(k, v) ELSE es[i]]
    ELSE Append(es, Entry(k, v))

Keys(es) == {es[i].key : i \in 1..Len(es)}

RECURSIVE FromEntries(_)
FromEntries(pairs) ==
    IF pairs = <<>>
    THEN <<>>
    ELSE Put(FromEntries(SubSeq(pairs, 1, Len(pairs) - 1)),
             pairs[Len(pairs)].key, pairs[Len(pairs)].value)

(***************************************************************************)
(* The schema: graphql-js type objects and argument definitions.          *)
(***************************************************************************)
ScalarType(name, ext) == [kind |-> "Scalar", name |-> name, extensions |-> ext]
InputObjectType(name, ext, fields) ==
    [kind |-> "InputObject", name |-> name, extensions |-> ext, fields |-> fields]
ListType(of) == [kind |-> "List", ofType |-> of]
NonNullType(of) == [kind |-> "NonNull", ofType |-> of]
InputField(name, type, ext) ==
    [kind |-> "InputField", name |-> name, type |-> type, extensions |-> ext]
ArgDef(type, ext) == [kind |-> "ArgumentConfig", type |-> type, extensions |-> ext]
\* the record of argument definitions itself, as a node of the walk
ArgDefsNode(defs) == [kind |-> "ArgDefs", defs |-> defs]

isType(n) == n.kind \in {"Scalar", "InputObject", "List", "NonNull"}
isWrappingType(n) == n.kind \in {"List", "NonNull"}
isListType(n) == n.kind = "List"
isInputObjectType(n) == n.kind = "InputObject"

\* node.extensions as JavaScript reads it: wrapping types own no such
\* property, and on the record of argument definitions it is the argument
\* of that name.
ExtensionsOf(n) ==
    CASE n.kind \in {"List", "NonNull"} -> Undefined
      [] n.kind = "ArgDefs" -> Get(n.defs, "extensions")
      [] OTHER -> n.extensions

\* x[k]: an own property of a plain object, or of a definition when
\* node.extensions turned out to be one
Index(x, k) ==
    IF "t" \in DOMAIN x
    THEN IF x.t = "object" THEN Get(x.entries, k) ELSE Undefined
    ELSE IF k \in DOMAIN x THEN x[k] ELSE Undefined

(***************************************************************************)
(* The caller's pieces of an InputTransformer.                             *)
(***************************************************************************)
\* What a field declaration stores under the annotation key.  `valid` tells
\* whether the extractor accepts it.
Config(slot, k, valid) == [t |-> "config", at |-> slot, key |-> k, valid |-> valid]

ThrownBy(who, what) == [t |-> "thrown", by |-> who, error |-> what]
IsThrown(v) == v.t = "thrown"

\* ConfigExtractor: the caller's extractor normalises the declared options
\* and rejects options it cannot make a configuration from.
extractConfig(options) ==
    IF options.t = "config" /\ options.valid
    THEN [options EXCEPT !.t = "extracted"]
    ELSE ThrownBy("extractConfig", options)

\* Transform: the caller's transform is any deterministic function of
\* (input, config); the model keeps its applications symbolic.  It throws
\* on a configuration it cannot work with.
transform(input, config) ==
    IF config.t \in {"config", "extracted"} /\ config.valid
    THEN [t |-> "transformed", input |-> input, config |-> config]
    ELSE ThrownBy("transform", config)

(***************************************************************************)
(* InputTransformer: the reducer of buildResolverMiddleware and the        *)
(* closures it returns.                                                    *)
(***************************************************************************)
Closure(fn, over) == [t |-> "function", fn |-> fn, over |-> over]
IsFunction(v) == v.t = "function"

\* composeKeyTransformers returns a closure over the [key, transform] pairs
composeKeyTransformers(keyTransformers) ==
    Closure("composeKeyTransformers", keyTransformers)

\* faulty variant: the configuration is run through the extractor at compile time
makeTransformExtracting(config) == Closure("makeTransform", extractConfig(config))

\* makeTransform returns (input) => this.transform(input, config)
makeTransform(config) == Closure("makeTransform", config)

\* faulty variant: the transform is applied to the list as a whole
makeListTransformWhole(config) == Closure("makeTransform", config)

\* makeListTransform returns (input) => input.map(makeTransform(config))
makeListTransform(config) == Closure("makeListTransform", makeTransform(config))

hasExtensions(node) == ~isListType(node) /\ ExtensionsOf(node) # Undefined

\* faulty variant: the first annotation of the node, whatever its key
getExtensionsAnyKey(self, node) ==
    IF ~hasExtensions(node)
    THEN Undefined
    ELSE IF ExtensionsOf(node).t = "object" /\ ExtensionsOf(node).entries # <<>>
    THEN ExtensionsOf(node).entries[1].value
    ELSE Undefined

getExtensions(self, node) ==
    IF ~hasExtensions(node)
    THEN Undefined
    ELSE Index(ExtensionsOf(node), self.extensionName)

\* !extensions
Falsy(v) == "t" \in DOMAIN v /\ v.t \in {"undefined", "null"}

Includes(seq, x) == \E i \in 1..Len(seq) : seq[i] = x

\* Object.entries(childValues ?? {})
EntriesOrEmpty(childValues) ==
    IF IsNullish(childValues) THEN <<>> ELSE childValues.entries

\* the reducer buildResolverMiddleware hands to reduceOverArgDefs
InputTransformerReducer(self, childValues, currentNode, ctx) ==
    LET childEntries == EntriesOrEmpty(childValues)
        extensions == getExtensions(self, currentNode)
    IN  IF Len(childEntries) > 0
        THEN composeKeyTransformers(childEntries)
        ELSE IF Falsy(extensions)
        THEN Undefined
        ELSE IF Includes(ctx.wrapping, "List")
        THEN makeListTransform(extensions)
        ELSE makeTransform(extensions)

\* A caller's visitor other than the InputTransformer's.  Handed the mapping
\* of a field-definition set, it answers a record of what it was handed, or
\* its `elsewhere` for an empty mapping; at the nodes of kind `at` under
\* the keys `keys` it gives its `answer` (a record of what it was handed
\* when that is the mark); everywhere else its `elsewhere`.
Seen(childValues, currentNode, ctx) ==
    [t |-> "seen", childValues |-> childValues, node |-> currentNode.kind,
     key |-> ctx.key, wrapping |-> ctx.wrapping]

Visitor(v, childValues, currentNode, ctx) ==
    IF childValues.t = "object"
    THEN IF childValues.entries = <<>> THEN v.elsewhere
         ELSE Seen(childValues, currentNode, ctx)
    ELSE IF ctx.key \in v.keys /\ currentNode.kind = v.at
    THEN IF v.answer = [t |-> "mark"] THEN Seen(childValues, currentNode, ctx) ELSE v.answer
    ELSE v.elsewhere

\* A reducer is the record of what it closed over; CallReducer applies it.
CallReducer(reducer, childValues, currentNode, ctx) ==
    IF reducer.kind = "InputTransformer"
    THEN InputTransformerReducer(reducer.self, childValues, currentNode, ctx)
    ELSE Visitor(reducer, childValues, currentNode, ctx)

(***************************************************************************)
(* input-type-traversal: the post-order reduction.  Every function returns *)
(* its value together with the calls of the reducer it made, in the order  *)
(* it made them.                                                           *)
(***************************************************************************)
Ctx(k, wrapping, initialNodeValue) ==
    [key |-> k, wrapping |-> wrapping, initialNodeValue |-> initialNodeValue]

\* one call of the reducer: who called, with what, and what came back
Visit(by, childValues, currentNode, ctx, returned) ==
    [by |-> by, childValues |-> childValues, currentNode |-> currentNode,
     ctx |-> ctx, returned |-> returned]

Walk(value, visits) == [value |-> value, visits |-> visits]

\* the calls made while Array.prototype.map ran over the entries, in order
RECURSIVE VisitsOf(_)
VisitsOf(walks) ==
    IF walks = <<>> THEN <<>> ELSE Head(walks).visits \o VisitsOf(Tail(walks))

\* core.unwrapGraphQLDef: the named type under the wrappers, and the
\* wrapper kinds passed on the way
RECURSIVE unwrapGraphQLDef(_)
unwrapGraphQLDef(type) ==
    IF isWrappingType(type)
    THEN LET inner == unwrapGraphQLDef(type.ofType)
         IN  [namedType |-> inner.namedType,
              wrapping |-> <<type.kind>> \o inner.wrapping]
    ELSE [namedType |-> type, wrapping |-> <<>>]

RECURSIVE unwrapType(_)
unwrapType(type) ==
    IF ~isType(type)
    THEN unwrapType(type.type)
    ELSE IF isWrappingType(type)
    THEN unwrapGraphQLDef(type)
    ELSE [namedType |-> type, wrapping |-> <<>>]

RECURSIVE reduceOverArgType(_, _, _)
RECURSIVE reduceOverWrappedType(_, _, _)
RECURSIVE reduceOverObjectType(_, _, _)

NotUndefined(e) == e.value # Undefined

\* the value of the walk below, after the calls made here
Under(here, below) == Walk(below.value, here \o below.visits)

\* faulty variant: the filter is forgotten
ChildValuesUnfiltered(entries, walks) ==
    Obj(FromEntries([i \in 1..Len(entries) |-> Entry(entries[i].key, walks[i].value)]))

\* Object.fromEntries(entries.map(...).filter(([_, v]) => v !== undefined))
ChildValues(entries, walks) ==
    Obj(FromEntries(SelectSeq([i \in 1..Len(entries) |->
                                 Entry(entries[i].key, walks[i].value)],
                              NotUndefined)))

reduceOverObjectType(argType, ctx, reducer) ==
    The({ The({ The({ Walk(value,
                           VisitsOf(walks)
                           \o <<Visit("reduceOverObjectType", childValues, argType, ctx,
                                      value)>>)
                      : value \in {CallReducer(reducer, childValues, argType, ctx)} })
                : childValues \in {ChildValues(argType.fields, walks)} })
          : walks \in {[i \in 1..Len(argType.fields) |->
                          reduceOverArgType(argType.fields[i].value,
                                            Ctx(argType.fields[i].key, <<>>,
                                                ctx.initialNodeValue),
                                            reducer)]} })

\* faulty variant: the walk never descends into an input object type
reduceOverWrappedTypeShallow(argType, ctx, reducer) ==
    The({ Walk(nextValue,
               <<Visit("reduceOverWrappedType", ctx.initialNodeValue, argType, ctx,
                       nextValue)>>)
          : nextValue \in {CallReducer(reducer, ctx.initialNodeValue, argType, ctx)} })

reduceOverWrappedType(argType, ctx, reducer) ==
    The({ IF nextValue # Undefined
          THEN Walk(nextValue,
                    <<Visit("reduceOverWrappedType", ctx.initialNodeValue, argType, ctx,
                            nextValue)>>)
          ELSE IF isInputObjectType(argType)
          THEN Under(<<Visit("reduceOverWrappedType", ctx.initialNodeValue, argType, ctx,
                             nextValue)>>,
                     reduceOverObjectType(argType, ctx, reducer))
          ELSE Walk(Undefined,
                    <<Visit("reduceOverWrappedType", ctx.initialNodeValue, argType, ctx,
                            nextValue)>>)
          : nextValue \in {CallReducer(reducer, ctx.initialNodeValue, argType, ctx)} })

reduceOverArgType(argType, ctx, reducer) ==
    The({ The({ IF nextValue # Undefined
                THEN Walk(nextValue,
                          <<Visit("reduceOverArgType", ctx.initialNodeValue, argType,
                                  [ctx EXCEPT !.wrapping = u.wrapping], nextValue)>>)
                ELSE Under(<<Visit("reduceOverArgType", ctx.initialNodeValue, argType,
                                   [ctx EXCEPT !.wrapping = u.wrapping], nextValue)>>,
                           reduceOverWrappedType(u.namedType,
                                                 [ctx EXCEPT !.wrapping = u.wrapping],
                                                 reducer))
                : nextValue \in {CallReducer(reducer, ctx.initialNodeValue, argType,
                                             [ctx EXCEPT !.wrapping = u.wrapping])} })
          : u \in {unwrapType(argType)} })

\* faulty variant: the walk goes on when the reducer returned the caller's
\* initialNodeValue
reduceOverArgDefBySentinel(argDef, ctx, reducer) ==
    The({ IF nextValue # ctx.initialNodeValue
          THEN Walk(nextValue,
                    <<Visit("reduceOverArgDef", ctx.initialNodeValue, argDef, ctx,
                            nextValue)>>)
          ELSE Under(<<Visit("reduceOverArgDef", ctx.initialNodeValue, argDef, ctx,
                             nextValue)>>,
                     reduceOverArgType(argDef.type, ctx, reducer))
          : nextValue \in {CallReducer(reducer, ctx.initialNodeValue, argDef, ctx)} })

\* faulty variant: the walk goes on below an argument definition whatever the
\* reducer returned for it, and prefers what it finds below
reduceOverArgDefDeep(argDef, ctx, reducer) ==
    The({ The({ IF below.value # Undefined
                THEN Under(<<Visit("reduceOverArgDef", ctx.initialNodeValue, argDef, ctx,
                                   nextValue)>>, below)
                ELSE Walk(nextValue,
                          <<Visit("reduceOverArgDef", ctx.initialNodeValue, argDef, ctx,
                                  nextValue)>> \o below.visits)
                : below \in {reduceOverArgType(argDef.type, ctx, reducer)} })
          : nextValue \in {CallReducer(reducer, ctx.initialNodeValue, argDef, ctx)} })

reduceOverArgDef(argDef, ctx, reducer) ==
    The({ IF nextValue # Undefined
          THEN Walk(nextValue,
                    <<Visit("reduceOverArgDef", ctx.initialNodeValue, argDef, ctx,
                            nextValue)>>)
          ELSE Under(<<Visit("reduceOverArgDef", ctx.initialNodeValue, argDef, ctx,
                             nextValue)>>,
                     reduceOverArgType(argDef.type, ctx, reducer))
          : nextValue \in {CallReducer(reducer, ctx.initialNodeValue, argDef, ctx)} })

reduceOverArgDefs(reducer, defs, initialNodeValue) ==
    The({ The({ The({ Walk(value,
                           VisitsOf(walks)
                           \o <<Visit("reduceOverArgDefs", childEntries, ArgDefsNode(defs),
                                      Ctx(Undefined, <<>>, initialNodeValue), value)>>)
                      : value \in {CallReducer(reducer, childEntries, ArgDefsNode(defs),
                                               Ctx(Undefined, <<>>, initialNodeValue))} })
                : childEntries \in {ChildValues(defs, walks)} })
          : walks \in {[i \in 1..Len(defs) |->
                          reduceOverArgDef(defs[i].value,
                                           Ctx(defs[i].key, <<>>, initialNodeValue),
                                           reducer)]} })

\* the reducer of an InputTransformer, as reduceOverArgDefs is handed it
Reducer(self) == [kind |-> "InputTransformer", self |-> self]

\* InputTransformer.buildResolverMiddleware
buildResolverMiddleware(self, defs) ==
    reduceOverArgDefs(Reducer(self), defs, Null).value

(***************************************************************************)
(* Request time: the heap, and running a compiled function.               *)
(***************************************************************************)
Alloc(h, cell) == [heap |-> Append(h, cell), value |-> Ref(Len(h) + 1)]

IsRef(v) == v.t = "ref"

\* the plain value a value stands for, references followed
RECURSIVE Snapshot(_, _)
Snapshot(h, v) ==
    IF ~IsRef(v)
    THEN v
    ELSE LET cell == h[v.addr]
         IN  IF cell.t = "object"
             THEN Obj([i \in 1..Len(cell.entries) |->
                         Entry(cell.entries[i].key, Snapshot(h, cell.entries[i].value))])
             ELSE Arr([i \in 1..Len(cell.items) |-> Snapshot(h, cell.items[i])])

\* a plain value put into the heap, every object and array in a cell of its own
RECURSIVE Store(_, _)
RECURSIVE StoreAll(_, _, _)
StoreAll(h, vs, acc) ==
    IF vs = <<>>
    THEN [heap |-> h, values |-> acc]
    ELSE The({ StoreAll(r.heap, Tail(vs), Append(acc, r.value))
               : r \in {Store(h, Head(vs))} })

Store(h, v) ==
    CASE v.t = "object" ->
           The({ Alloc(r.heap, Obj([i \in 1..Len(v.entries) |->
                                      Entry(v.entries[i].key, r.values[i])]))
                 : r \in {StoreAll(h, [i \in 1..Len(v.entries) |-> v.entries[i].value],
                                   <<>>)} })
      [] v.t = "array" ->
           The({ Alloc(r.heap, Arr(r.values)) : r \in {StoreAll(h, v.items, <<>>)} })
      [] OTHER -> [heap |-> h, value |-> v]

TypeError(what) == ThrownBy("TypeError", what)

\* faulty variant: carry.key in place of carry[key]
GetPropertyNamedKey(h, v, k) ==
    CASE IsNullish(v) -> TypeError("Cannot read properties of null or undefined")
      [] IsRef(v) /\ h[v.addr].t = "object" -> Get(h[v.addr].entries, "key")
      [] OTHER -> Undefined

\* carry[key]
GetProperty(h, v, k) ==
    CASE IsNullish(v) -> TypeError("Cannot read properties of null or undefined")
      [] IsRef(v) /\ h[v.addr].t = "object" -> Get(h[v.addr].entries, k)
      [] OTHER -> Undefined

\* faulty variant: the spread is forgotten
OwnEnumerableNone(h, v) == <<>>

\* the own enumerable properties {...carry} copies; nothing for null,
\* undefined, numbers and booleans, the indices for an array
OwnEnumerable(h, v) ==
    CASE IsRef(v) /\ h[v.addr].t = "object" -> h[v.addr].entries
      [] IsRef(v) /\ h[v.addr].t = "array" ->
           [i \in 1..Len(h[v.addr].items) |-> Entry(ToString(i - 1), h[v.addr].items[i])]
      [] OTHER -> <<>>

\* faulty variant: the property is defined on carry itself
SpreadAlias(h, carry) ==
    IF IsRef(carry) /\ h[carry.addr].t = "object"
    THEN [heap |-> h, value |-> carry]
    ELSE Alloc(h, Obj(OwnEnumerable(h, carry)))

\* {...carry}: a new object holding carry's own enumerable properties
SpreadCopy(h, carry) == Alloc(h, Obj(OwnEnumerable(h, carry)))

\* obj[key] = v on the object at a reference
DefineProperty(h, ref, k, v) ==
    [h EXCEPT ![ref.addr] = Obj(Put(h[ref.addr].entries, k, v))]

Outcome(h, v, calls) == [heap |-> h, value |-> v, calls |-> calls]

Invocation(input, config) == [input |-> input, config |-> config]

RECURSIVE Call(_, _, _)
RECURSIVE ArrayMap(_, _, _, _, _, _)
RECURSIVE ArrayReduce(_, _, _, _)

\* input.map(transform): the callback on every element in index order, the
\* results in a new array
ArrayMap(f, h, items, i, acc, calls) ==
    IF i > Len(items)
    THEN LET a == Alloc(h, Arr(acc))
         IN  Outcome(a.heap, a.value, calls)
    ELSE LET o == Call(f, h, items[i])
         IN  IF IsThrown(o.value)
             THEN Outcome(o.heap, o.value, calls \o o.calls)
             ELSE ArrayMap(f, o.heap, items, i + 1, Append(acc, o.value),
                           calls \o o.calls)

\* faulty variant: reduceRight, the last key first
RECURSIVE ArrayReduceRight(_, _, _, _)
ArrayReduceRight(keyTransformers, h, carry, calls) ==
    IF keyTransformers = <<>>
    THEN Outcome(h, carry, calls)
    ELSE LET last == keyTransformers[Len(keyTransformers)]
             copy == SpreadCopy(h, carry)
             prop == GetProperty(copy.heap, carry, last.key)
             o == Call(last.value, copy.heap, prop)
         IN  IF IsThrown(prop)
             THEN Outcome(copy.heap, prop, calls)
             ELSE IF IsThrown(o.value)
             THEN Outcome(o.heap, o.value, calls \o o.calls)
             ELSE ArrayReduceRight(SubSeq(keyTransformers, 1, Len(keyTransformers) - 1),
                                   DefineProperty(o.heap, copy.value, last.key, o.value),
                                   copy.value, calls \o o.calls)

\* keyTransformers.reduce((carry, [key, transform]) =>
\*     ({...carry, [key]: transform(carry[key])}), args)
ArrayReduce(keyTransformers, h, carry, calls) ==
    IF keyTransformers = <<>>
    THEN Outcome(h, carry, calls)
    ELSE LET k == Head(keyTransformers).key
             copy == SpreadCopy(h, carry)
             prop == GetProperty(copy.heap, carry, k)
             o == Call(Head(keyTransformers).value, copy.heap, prop)
         IN  IF IsThrown(prop)
             THEN Outcome(copy.heap, prop, calls)
             ELSE IF IsThrown(o.value)
             THEN Outcome(o.heap, o.value, calls \o o.calls)
             ELSE ArrayReduce(Tail(keyTransformers),
                              DefineProperty(o.heap, copy.value, k, o.value),
                              copy.value, calls \o o.calls)

\* a closure of the InputTransformer applied to an input
Call(f, h, input) ==
    CASE f.fn = "makeTransform" ->
           Outcome(h, transform(Snapshot(h, input), f.over),
                   <<Invocation(Snapshot(h, input), f.over)>>)
      [] f.fn = "makeListTransform" ->
           IF IsRef(input) /\ h[input.addr].t = "array"
           THEN ArrayMap(f.over, h, h[input.addr].items, 1, <<>>, <<>>)
           ELSE Outcome(h, TypeError("input.map is not a function"), <<>>)
      [] f.fn = "composeKeyTransformers" ->
           ArrayReduce(f.over, h, input, <<>>)

(***************************************************************************)
(* The trees and the argument bags of the model.                           *)
(*                                                                         *)
(* Every level declares the fields id (a custom scalar), n (Int), ids (a   *)
(* list of the custom scalar), flag (Boolean) and, down to MaxDepth, box   *)
(* (an input object with the same fields).  A slot is a place that can    *)
(* carry an extensions object: an argument definition or an input field   *)
(* (its path), the input object type of a box (its path, then "#type"),   *)
(* or the custom scalar type.                                              *)
(***************************************************************************)
ExtensionNames == {"k1", "k2"}

\* what a declaration can put in a slot
ExtensionKinds == {"k1", "k2", "both", "malformed"}

Extensions(slot, kind) ==
    CASE kind = "k1" -> Obj(<<Entry("k1", Config(slot, "k1", TRUE))>>)
      [] kind = "k2" -> Obj(<<Entry("k2", Config(slot, "k2", TRUE))>>)
      [] kind = "both" -> Obj(<<Entry("k1", Config(slot, "k1", TRUE)),
                                Entry("k2", Config(slot, "k2", TRUE))>>)
      [] kind = "malformed" -> Obj(<<Entry("k1", Config(slot, "k1", FALSE))>>)

\* nullable types throughout, or every type wrapped in NonNull
Styles == {"nullable", "required"}

Wrap(style, type) == IF style = "required" THEN NonNullType(type) ELSE type

\* a third way to declare the trees: every box a list of boxes, all nullable
ListStyles == {"listed"}

WrapBox(style, type) == IF style \in ListStyles THEN ListType(type) ELSE Wrap(style, type)

RECURSIVE SlotsBelow(_, _)
SlotsBelow(p, d) ==
    {p \o <<"id">>, p \o <<"ids">>}
    \cup (IF d < MaxDepth
          THEN {p \o <<"box">>, p \o <<"box", "#type">>} \cup SlotsBelow(p \o <<"box">>, d + 1)
          ELSE {})

Slots == {<<"#Custom">>} \cup SlotsBelow(<<>>, 0)

Ann(ann, slot) == IF slot \in DOMAIN ann THEN Extensions(slot, ann[slot]) ELSE Undefined

CustomType(ann) == ScalarType("Custom", Ann(ann, <<"#Custom">>))
IntType == ScalarType("Int", Obj(<<>>))
BooleanType == ScalarType("Boolean", Obj(<<>>))

\* the fields declared at the level under path p: name and type
RECURSIVE Declared(_, _, _, _)
Declared(ann, style, p, d) ==
    << Entry("id", Wrap(style, CustomType(ann))),
       Entry("n", Wrap(style, IntType)),
       Entry("ids", Wrap(style, ListType(Wrap(style, CustomType(ann))))),
       Entry("flag", Wrap(style, BooleanType)) >>
    \o (IF d < MaxDepth
        THEN LET q == p \o <<"box">>
                 below == Declared(ann, style, q, d + 1)
                 fields == [i \in 1..Len(below) |->
                              Entry(below[i].key,
                                    InputField(below[i].key, below[i].value,
                                               Ann(ann, q \o <<below[i].key>>)))]
             IN  << Entry("box", WrapBox(style, InputObjectType(q, Ann(ann, q \o <<"#type">>),
                                                                fields))) >>
        ELSE <<>>)

\* the argument definitions of a resolver
RootArgDefs(ann, style) ==
    LET top == Declared(ann, style, <<>>, 0)
    IN  [i \in 1..Len(top) |->
           Entry(top[i].key, ArgDef(top[i].value, Ann(ann, <<top[i].key>>)))]

\* An argument bag that conforms to the definitions.  Lists have shape.len
\* elements; shape.absent says which nullable values the request leaves out.
Absences == {"nullScalars", "nullLists", "missingLists", "nullObjects", "missingObjects"}

Shapes == {[len |-> n, absent |-> "none"] : n \in 0..MaxLen}
          \cup {[len |-> 1, absent |-> m] : m \in Absences}

Present(e) == e.value # Undefined

RECURSIVE Conforming(_, _, _, _)
Conforming(type, p, shape, nullable) ==
    CASE type.kind = "NonNull" -> Conforming(type.ofType, p, shape, FALSE)
      [] type.kind = "List" ->
           IF nullable /\ shape.absent = "nullLists" THEN Null
           ELSE IF nullable /\ shape.absent = "missingLists" THEN Undefined
           ELSE Arr([i \in 1..shape.len |->
                       Conforming(type.ofType, p \o <<ToString(i - 1)>>, shape, TRUE)])
      [] type.kind = "InputObject" ->
           IF nullable /\ shape.absent = "nullObjects" THEN Null
           ELSE IF nullable /\ shape.absent = "missingObjects" THEN Undefined
           ELSE Obj(SelectSeq([i \in 1..Len(type.fields) |->
                                Entry(type.fields[i].key,
                                      Conforming(type.fields[i].value.type,
                                                 p \o <<type.fields[i].key>>, shape, TRUE))],
                             Present))
      [] type.kind = "Scalar" /\ type.name = "Int" -> Num(7)
      [] type.kind = "Scalar" /\ type.name = "Boolean" -> Bool(TRUE)
      [] OTHER ->
           IF nullable /\ shape.absent = "nullScalars" THEN Null ELSE Str(p)

ConformingBag(defs, shape) ==
    Obj(SelectSeq([i \in 1..Len(defs) |->
                     Entry(defs[i].key,
                           Conforming(defs[i].value.type, <<defs[i].key>>, shape, TRUE))],
                  Present))

(***************************************************************************)
(* The state machine.                                                      *)
(***************************************************************************)
Self == [extensionName |-> extensionName]

Init ==
    /\ \E style \in Styles :
         \E S \in SUBSET Slots :
           /\ Cardinality(S) <= MaxAnnotated
           /\ \E ann \in [S -> ExtensionKinds] : argDefs = RootArgDefs(ann, style)
    /\ extensionName \in ExtensionNames
    /\ middleware = NotBuilt
    /\ heap = <<>>
    /\ bag = Undefined
    /\ args = Undefined
    /\ results = <<>>
    /\ visitor = NotBuilt
    /\ walk = NotBuilt

Result(o) == [value |-> o.value, calls |-> o.calls]

\* onCreateFieldResolver: inputTransformer.buildResolverMiddleware(argTypes)
Build ==
    /\ middleware = NotBuilt
    /\ middleware' = buildResolverMiddleware(Self, argDefs)
    /\ UNCHANGED <<argDefs, extensionName, heap, bag, args, results, visitor, walk>>

\* the resolver middleware on a request: next(root, transform(args), ctx, info)
Resolve(shape) ==
    /\ IsFunction(middleware)
    /\ args = Undefined
    /\ \E b \in {ConformingBag(argDefs, shape)} :
       \E stored \in {Store(<<>>, b)} :
       \E o \in {Call(middleware, stored.heap, stored.value)} :
           /\ bag' = b
           /\ args' = stored.value
           /\ heap' = o.heap
           /\ results' = <<Result(o)>>
    /\ UNCHANGED <<argDefs, extensionName, middleware, visitor, walk>>

\* the compiled function called once more on the same argument bag
Reapply ==
    /\ IsFunction(middleware)
    /\ args # Undefined
    /\ Len(results) < MaxCalls
    /\ \E o \in {Call(middleware, heap, args)} :
           /\ heap' = o.heap
           /\ results' = Append(results, Result(o))
    /\ UNCHANGED <<argDefs, extensionName, middleware, bag, args, visitor, walk>>

Next ==
    \/ Build
    \/ \E shape \in Shapes : Resolve(shape)
    \/ Reapply

Spec == Init /\ [][Next]_vars

(***************************************************************************)
(* The same resolver for the trees in which every box is a list of boxes.  *)
(***************************************************************************)
ListInit ==
    /\ \E style \in ListStyles :
         \E S \in SUBSET Slots :
           /\ Cardinality(S) <= MaxAnnotated
           /\ \E ann \in [S -> ExtensionKinds] : argDefs = RootArgDefs(ann, style)
    /\ extensionName \in ExtensionNames
    /\ middleware = NotBuilt
    /\ heap = <<>>
    /\ bag = Undefined
    /\ args = Undefined
    /\ results = <<>>
    /\ visitor = NotBuilt
    /\ walk = NotBuilt

ListSpec == ListInit /\ [][Next]_vars

(***************************************************************************)
(* reduceOverArgDefs on its own: a caller folds a tree with a visitor and  *)
(* an initialNodeValue of its choice.                                      *)
(***************************************************************************)
\* what the visitor answers at the nodes it singles out
Mark == [t |-> "mark"]
Answers == {Undefined, Null, Obj(<<>>), Mark}

\* the values a caller passes as initialNodeValue, and answers elsewhere
Sentinels == {Undefined, Null}

VisitorKeys == {"id", "ids", "box"}
NodeKinds == {"ArgumentConfig", "InputField", "List", "NonNull", "Scalar", "InputObject"}

Visitors ==
    [kind : {"Visitor"}, initialNodeValue : Sentinels, elsewhere : Sentinels,
     answer : Answers, keys : SUBSET VisitorKeys, at : NodeKinds]

NoAnnotations == [s \in {} |-> "k1"]

FoldInit ==
    /\ \E style \in Styles \cup ListStyles : argDefs = RootArgDefs(NoAnnotations, style)
    /\ visitor \in Visitors
    /\ walk = NotBuilt
    /\ extensionName = "k1"
    /\ middleware = NotBuilt
    /\ heap = <<>>
    /\ bag = Undefined
    /\ args = Undefined
    /\ results = <<>>

\* reduceOverArgDefs(reducer, argDefs, initialNodeValue)
Fold ==
    /\ visitor # NotBuilt
    /\ walk = NotBuilt
    /\ walk' = reduceOverArgDefs(visitor, argDefs, visitor.initialNodeValue)
    /\ UNCHANGED <<argDefs, extensionName, middleware, heap, bag, args, results, visitor>>

FoldNext == Fold

FoldSpec == FoldInit /\ [][FoldNext]_vars

(***************************************************************************)
(* Reading the tree and a bag by path, for the properties below.           *)
(***************************************************************************)
Built == middleware # NotBuilt

RECURSIVE Named(_)
Named(type) == IF type.kind \in {"List", "NonNull"} THEN Named(type.ofType) ELSE type

RECURSIVE HasList(_)
HasList(type) ==
    \/ type.kind = "List"
    \/ type.kind = "NonNull" /\ HasList(type.ofType)

\* the definition, field or named type carries an annotation under key k
Carries(node, k) ==
    /\ node.extensions.t = "object"
    /\ HasKey(node.extensions.entries, k)

Annotation(node, k) == Get(node.extensions.entries, k)

\* some node of the tree under these definitions carries key k
RECURSIVE AnyCarries(_, _)
AnyCarries(defs, k) ==
    \E i \in 1..Len(defs) :
        LET def == defs[i].value
            named == Named(def.type)
        IN  \/ Carries(def, k)
            \/ Carries(named, k)
            \/ named.kind = "InputObject" /\ AnyCarries(named.fields, k)

\* the paths of all fields declared in the tree
RECURSIVE PathsIn(_, _)
PathsIn(defs, p) ==
    UNION {{p \o <<defs[i].key>>}
           \cup (IF Named(defs[i].value.type).kind = "InputObject"
                 THEN PathsIn(Named(defs[i].value.type).fields, p \o <<defs[i].key>>)
                 ELSE {}) : i \in 1..Len(defs)}

FieldPaths == PathsIn(argDefs, <<>>)

RECURSIVE DefAt(_, _)
DefAt(defs, path) ==
    LET def == Get(defs, Head(path))
    IN  IF Len(path) = 1 THEN def ELSE DefAt(Named(def.type).fields, Tail(path))

RECURSIVE ValueAt(_, _)
ValueAt(v, path) ==
    IF path = <<>> THEN v
    ELSE IF v.t = "object" THEN ValueAt(Get(v.entries, Head(path)), Tail(path))
    ELSE Undefined

\* the field at the path, or its named type, is annotated under the key
AnnotatedAt(path, k) ==
    LET def == DefAt(argDefs, path)
    IN  Carries(def, k) \/ Carries(Named(def.type), k)

\* the configuration the walk finds first at the path
ConfigAt(path, k) ==
    LET def == DefAt(argDefs, path)
    IN  IF Carries(def, k) THEN Annotation(def, k) ELSE Annotation(Named(def.type), k)

\* an enclosing field of the path is annotated: the walk stops there
Shadowed(path, k) ==
    \E n \in 1..(Len(path) - 1) : AnnotatedAt(SubSeq(path, 1, n), k)

ScalarAt(path) ==
    LET def == DefAt(argDefs, path)
    IN  Named(def.type).kind = "Scalar" /\ ~HasList(def.type)

ListOfScalarAt(path) ==
    LET def == DefAt(argDefs, path)
    IN  Named(def.type).kind = "Scalar" /\ HasList(def.type)

\* the calls of the compiled function that returned a bag
Returned == {i \in 1..Len(results) : ~IsThrown(results[i].value)}

Output(i) == Snapshot(heap, results[i].value)

\* [f(e, c) : e in the list]
Mapped(list, c) == Arr([j \in 1..Len(list.items) |-> transform(list.items[j], c)])

(***************************************************************************)
(* C1.  buildResolverMiddleware returns undefined exactly for the trees in *)
(* which no node carries the instance's annotation key, and a function for *)
(* every tree in which some definition, field or named type carries it.    *)
(***************************************************************************)
C1_UndefinedIffUnannotated ==
    Built =>
        /\ ~AnyCarries(argDefs, extensionName) => middleware = Undefined
        /\ AnyCarries(argDefs, extensionName) => IsFunction(middleware)

\* a function is returned for a tree annotated only inside a nested box
C1_Witness ==
    /\ IsFunction(middleware)
    /\ \A i \in 1..Len(argDefs) :
          /\ ~Carries(argDefs[i].value, extensionName)
          /\ ~Carries(Named(argDefs[i].value.type), extensionName)

(***************************************************************************)
(* C2.  Whenever the compiled function returns a bag, the value v at an    *)
(* annotated scalar position, at the root or in a box at any depth, with   *)
(* no enclosing field annotated, is transform(v, c) in that bag, c being   *)
(* the configuration stored at the position.                               *)
(***************************************************************************)
C2_ScalarPositionTransformed ==
    \A i \in Returned : \A p \in FieldPaths :
        (ScalarAt(p) /\ AnnotatedAt(p, extensionName) /\ ~Shadowed(p, extensionName))
        => ValueAt(Output(i), p) = transform(ValueAt(bag, p), ConfigAt(p, extensionName))

\* a bag came back with a scalar transformed two boxes down
C2_Witness ==
    \E i \in Returned : \E p \in FieldPaths :
        /\ Len(p) >= 2
        /\ ScalarAt(p) /\ AnnotatedAt(p, extensionName) /\ ~Shadowed(p, extensionName)
        /\ ValueAt(bag, p).t = "string"
        /\ ValueAt(Output(i), p).t = "transformed"

(***************************************************************************)
(* C3.  For a root argument definition that is annotated and typed as a    *)
(* list of scalars, the compiled function replaces the list [v1, ..., vn]  *)
(* by [f(v1, c), ..., f(vn, c)], and an empty list by an empty list.       *)
(***************************************************************************)
C3_RootListMappedElementwise ==
    \A i \in Returned : \A p \in FieldPaths :
        (/\ Len(p) = 1
         /\ ListOfScalarAt(p)
         /\ Carries(DefAt(argDefs, p), extensionName)
         /\ ValueAt(bag, p).t = "array")
        => ValueAt(Output(i), p) = Mapped(ValueAt(bag, p), ConfigAt(p, extensionName))

(***************************************************************************)
(* C4.  Whenever the compiled function returns a bag, the list at an       *)
(* annotated list-of-scalar field of an input object type, whatever the   *)
(* NonNull wrappers, with no enclosing field annotated, is replaced by the *)
(* list of transform(e, c) for its elements e, in the same order.          *)
(***************************************************************************)
C4_NestedListMappedElementwise ==
    \A i \in Returned : \A p \in FieldPaths :
        (/\ Len(p) >= 2
         /\ ListOfScalarAt(p)
         /\ AnnotatedAt(p, extensionName)
         /\ ~Shadowed(p, extensionName))
        => /\ ValueAt(bag, p).t = "array"
           /\ ValueAt(Output(i), p) = Mapped(ValueAt(bag, p), ConfigAt(p, extensionName))

\* a list of two elements in a box came back mapped
C4_Witness ==
    \E i \in Returned : \E p \in FieldPaths :
        /\ Len(p) >= 2
        /\ ListOfScalarAt(p)
        /\ Carries(DefAt(argDefs, p), extensionName)
        /\ ~Shadowed(p, extensionName)
        /\ ValueAt(bag, p).t = "array"
        /\ Len(ValueAt(bag, p).items) = 2
        /\ ValueAt(Output(i), p) = Mapped(ValueAt(bag, p), ConfigAt(p, extensionName))

(***************************************************************************)
(* C5.  Whenever the compiled function returns a bag, every declared field *)
(* that is neither annotated (at the field or its named type) nor an input *)
(* object with an annotation below it has the value it had in the input,   *)
(* at every depth; such a key is present in the output exactly if it was   *)
(* in the input, and no undeclared key appears.                            *)
(***************************************************************************)
RECURSIVE FrameKept(_, _, _, _)
FrameKept(defs, k, in, out) ==
    /\ out.t = "object"
    /\ Keys(in.entries) \subseteq Keys(out.entries)
    /\ Keys(out.entries) \subseteq Keys(in.entries) \cup Keys(defs)
    /\ \A i \in 1..Len(defs) :
          LET key == defs[i].key
              def == defs[i].value
              named == Named(def.type)
          IN  IF Carries(def, k) \/ Carries(named, k)
              THEN TRUE
              ELSE IF named.kind = "InputObject" /\ AnyCarries(named.fields, k)
              THEN (Get(in.entries, key).t = "object" /\ ~HasList(def.type))
                   => FrameKept(named.fields, k, Get(in.entries, key), Get(out.entries, key))
              ELSE /\ HasKey(out.entries, key) <=> HasKey(in.entries, key)
                   /\ Get(out.entries, key) = Get(in.entries, key)

C5_OnlyAnnotatedPositionsChange ==
    \A i \in Returned : FrameKept(argDefs, extensionName, bag, Output(i))

\* a bag came back with a root field and a field of a box transformed, the
\* number, the boolean and the unannotated strings beside them as they were
C5_Witness ==
    \E i \in Returned :
        /\ ValueAt(Output(i), <<"ids">>).t = "transformed"
        /\ ValueAt(Output(i), <<"box", "id">>).t = "transformed"
        /\ ValueAt(Output(i), <<"id">>) = Str(<<"id">>)
        /\ ValueAt(Output(i), <<"n">>) = Num(7)
        /\ ValueAt(Output(i), <<"box", "flag">>) = Bool(TRUE)

(***************************************************************************)
(* C6.  The argument bag, nested bags and lists included, is after every   *)
(* call what the request passed in.  Every call that returns a bag returns *)
(* a newly allocated one, distinct from the input bag and from the bag of  *)
(* every other call, and the bags of two calls on the same input are       *)
(* deeply equal; a call that throws throws the same on every call.         *)
(***************************************************************************)
C6_FreshEqualOutputsInputIntact ==
    /\ args # Undefined => Snapshot(heap, args) = bag
    /\ \A i \in 1..Len(results) : \A j \in 1..Len(results) :
          /\ IsThrown(results[i].value) => results[j].value = results[i].value
          /\ (i \in Returned /\ j \in Returned /\ i # j) =>
                /\ IsRef(results[i].value)
                /\ results[i].value # args
                /\ results[i].value # results[j].value
                /\ Output(i) = Output(j)

\* two calls on one bag returned, with a scalar and a nested list transformed
C6_Witness ==
    /\ Len(results) = 2
    /\ Returned = {1, 2}
    /\ ValueAt(Output(2), <<"id">>).t = "transformed"
    /\ ValueAt(Output(2), <<"box", "ids">>).t = "array"
    /\ ValueAt(Output(2), <<"box", "ids">>) # ValueAt(bag, <<"box", "ids">>)

(***************************************************************************)
(* C7.  The function an instance compiles depends on the annotations under *)
(* its own key only: it is the function compiled from the tree with every  *)
(* annotation under another key removed, every configuration it hands to   *)
(* the transform was stored under its own key, and a field that is neither *)
(* annotated under its own key, nor below or above such a field, keeps its *)
(* value.                                                                  *)
(***************************************************************************)
StripExtensions(ext, k) ==
    LET Own(e) == e.key = k
    IN  IF ext.t = "object" /\ SelectSeq(ext.entries, Own) # <<>>
        THEN Obj(SelectSeq(ext.entries, Own))
        ELSE Undefined

RECURSIVE StripType(_, _)
StripType(type, k) ==
    CASE type.kind \in {"List", "NonNull"} ->
           [type EXCEPT !.ofType = StripType(@, k)]
      [] type.kind = "InputObject" ->
           [type EXCEPT
              !.extensions = StripExtensions(@, k),
              !.fields = [i \in 1..Len(@) |->
                            Entry(@[i].key,
                                  [@[i].value EXCEPT
                                     !.extensions = StripExtensions(@, k),
                                     !.type = StripType(@, k)])]]
      [] OTHER -> [type EXCEPT !.extensions = StripExtensions(@, k)]

StripDefs(defs, k) ==
    [i \in 1..Len(defs) |->
       Entry(defs[i].key,
             [defs[i].value EXCEPT
                !.extensions = StripExtensions(@, k),
                !.type = StripType(@, k)])]

AboveAnnotated(path, k) ==
    LET named == Named(DefAt(argDefs, path).type)
    IN  named.kind = "InputObject" /\ AnyCarries(named.fields, k)

C7_OwnKeyOnly ==
    /\ Built => middleware = buildResolverMiddleware(Self, StripDefs(argDefs, extensionName))
    /\ \A i \in 1..Len(results) : \A j \in 1..Len(results[i].calls) :
          results[i].calls[j].config.key = extensionName
    /\ \A i \in Returned : \A p \in FieldPaths :
          (/\ ~AnnotatedAt(p, extensionName)
           /\ ~Shadowed(p, extensionName)
           /\ ~AboveAnnotated(p, extensionName))
          => ValueAt(Output(i), p) = ValueAt(bag, p)

\* a bag came back from the instance of one key, for a tree in which a
\* field carries only the other key and another field carries both
C7_Witness ==
    \E i \in Returned : \E p \in FieldPaths : \E q \in FieldPaths :
        \E other \in ExtensionNames \ {extensionName} :
            /\ Carries(DefAt(argDefs, p), other)
            /\ ~Carries(DefAt(argDefs, p), extensionName)
            /\ ValueAt(Output(i), p) = ValueAt(bag, p)
            /\ Carries(DefAt(argDefs, q), other)
            /\ Carries(DefAt(argDefs, q), extensionName)
            /\ ValueAt(Output(i), q).t = "transformed"

(***************************************************************************)
(* C8.  A list transform built for an annotated list position passes an    *)
(* absent list on: a call on a bag whose annotated list field is null or   *)
(* missing returns a bag, and the field is null or missing in it as it was *)
(* in the input.                                                           *)
(***************************************************************************)
\* the walk builds a list transform at the path: an annotated list field of
\* an input object, or a list of an annotated named type
ListTransformAt(path, k) ==
    LET def == DefAt(argDefs, path)
    IN  /\ HasList(def.type)
        /\ ~Shadowed(path, k)
        /\ \/ Len(path) >= 2 /\ AnnotatedAt(path, k)
           \/ Len(path) = 1 /\ ~Carries(def, k) /\ Carries(Named(def.type), k)

C8_AbsentListPropagates ==
    \A i \in 1..Len(results) : \A p \in FieldPaths :
        (ListTransformAt(p, extensionName) /\ IsNullish(ValueAt(bag, p)))
        => /\ ~IsThrown(results[i].value)
           /\ ValueAt(Output(i), p) = ValueAt(bag, p)

(***************************************************************************)
(* C9.  The transforms are invoked in discovery order: the fields of a bag *)
(* in declaration order, a box's fields where the box stands, a list's     *)
(* elements in index order.  When the transform throws, what it threw is   *)
(* the outcome of the call in place of a bag, and no transform is invoked  *)
(* after the one that threw.                                               *)
(***************************************************************************)
NoError == [t |-> "none"]

Run(calls, error) == [calls |-> calls, error |-> error]

\* one invocation added to a run, which ends there when the transform throws
Invoke(run, input, c) ==
    IF run.error # NoError
    THEN run
    ELSE Run(Append(run.calls, Invocation(input, c)),
             IF IsThrown(transform(input, c)) THEN transform(input, c) ELSE NoError)

RECURSIVE InvokeEach(_, _, _, _)
InvokeEach(run, items, j, c) ==
    IF j > Len(items) THEN run ELSE InvokeEach(Invoke(run, items[j], c), items, j + 1, c)

Crash(run) == IF run.error # NoError THEN run ELSE Run(run.calls, TypeError("absent"))

\* the invocations a call makes for the fields defs[i..] of the bag v
RECURSIVE Expected(_, _, _, _, _, _)
Expected(run, defs, i, k, v, root) ==
    IF i > Len(defs) \/ run.error # NoError
    THEN run
    ELSE LET def == defs[i].value
             named == Named(def.type)
             x == Get(v.entries, defs[i].key)
             mapped == HasList(def.type) /\ ~(root /\ Carries(def, k))
             c == IF Carries(def, k) THEN Annotation(def, k) ELSE Annotation(named, k)
             here ==
                 IF Carries(def, k) \/ Carries(named, k)
                 THEN IF ~mapped THEN Invoke(run, x, c)
                      ELSE IF x.t = "array" THEN InvokeEach(run, x.items, 1, c)
                      ELSE Crash(run)
                 ELSE IF named.kind = "InputObject" /\ AnyCarries(named.fields, k)
                 THEN IF x.t = "object"
                      THEN Expected(run, named.fields, 1, k, x, FALSE)
                      ELSE Crash(run)
                 ELSE run
         IN  Expected(here, defs, i + 1, k, v, root)

ExpectedRun == Expected(Run(<<>>, NoError), argDefs, 1, extensionName, bag, TRUE)

C9_ThrowStopsInDiscoveryOrder ==
    \A i \in 1..Len(results) :
        /\ results[i].calls = ExpectedRun.calls
        /\ ExpectedRun.error = NoError => ~IsThrown(results[i].value)
        /\ (IsThrown(ExpectedRun.error) /\ ExpectedRun.error.by = "transform")
           => results[i].value = ExpectedRun.error

\* the transform threw after the transform of an earlier key had run, and an
\* annotated scalar after it was never handed to the transform
C9_Witness ==
    \E i \in 1..Len(results) :
        /\ IsThrown(results[i].value)
        /\ results[i].value.by = "transform"
        /\ Len(results[i].calls) >= 2
        /\ results[i].calls[1].config.valid
        /\ \E p \in FieldPaths :
              /\ ScalarAt(p)
              /\ AnnotatedAt(p, extensionName) /\ ~Shadowed(p, extensionName)
              /\ \A j \in 1..Len(results[i].calls) :
                    results[i].calls[j].input # ValueAt(bag, p)

(***************************************************************************)
(* C10.  As the specification states it: a malformed annotation is an      *)
(* error of buildResolverMiddleware, which invokes the extractor for every *)
(* annotation it discovers, and never an error of a later call.            *)
(***************************************************************************)
\* the configurations stored under key k anywhere in the tree
RECURSIVE AnnotationsIn(_, _)
AnnotationsIn(defs, k) ==
    UNION {LET def == defs[i].value
               named == Named(def.type)
           IN  (IF Carries(def, k) THEN {Annotation(def, k)} ELSE {})
               \cup (IF Carries(named, k) THEN {Annotation(named, k)} ELSE {})
               \cup (IF named.kind = "InputObject"
                     THEN AnnotationsIn(named.fields, k) ELSE {})
           : i \in 1..Len(defs)}

\* the configurations a closure closed over
RECURSIVE ClosedOver(_)
ClosedOver(f) ==
    CASE f.fn = "makeTransform" -> {f.over}
      [] f.fn = "makeListTransform" -> ClosedOver(f.over)
      [] f.fn = "composeKeyTransformers" ->
           UNION {ClosedOver(f.over[i].value) : i \in 1..Len(f.over)}

Malformed(c) == IsThrown(extractConfig(c))

C10_MalformedSurfacesAtCompile ==
    /\ (Built /\ \E c \in AnnotationsIn(argDefs, extensionName) : Malformed(c))
       => IsThrown(middleware)
    /\ IsFunction(middleware) =>
          \A c \in ClosedOver(middleware) : \E o \in AnnotationsIn(argDefs, extensionName) :
              c = extractConfig(o)
    /\ \A i \in 1..Len(results) : \A j \in 1..Len(results[i].calls) :
          ~Malformed(results[i].calls[j].config)

(***************************************************************************)
(* C10, amended.  buildResolverMiddleware never invokes the extractor and  *)
(* never fails on an annotation: the configuration it closes over, and     *)
(* hands to the transform on every call, is the value stored under the     *)
(* key as it stands, so a malformed annotation is first met by the         *)
(* transform, at request time.                                             *)
(***************************************************************************)
C10_StoredValueReachesTransform ==
    /\ Built => (middleware = Undefined \/ IsFunction(middleware))
    /\ IsFunction(middleware) =>
          ClosedOver(middleware) \subseteq AnnotationsIn(argDefs, extensionName)
    /\ \A i \in 1..Len(results) : \A j \in 1..Len(results[i].calls) :
          results[i].calls[j].config \in AnnotationsIn(argDefs, extensionName)

\* compile returned a function for a malformed annotation, and the call
\* failed in the transform, which was handed the malformed value
C10_Witness ==
    /\ IsFunction(middleware)
    /\ \E i \in 1..Len(results) :
          /\ IsThrown(results[i].value)
          /\ results[i].value.by = "transform"
          /\ Malformed(results[i].value.error)
          /\ results[i].value.error \in AnnotationsIn(argDefs, extensionName)

(***************************************************************************)
(* C11.  As the specification states it: whatever initialNodeValue e the   *)
(* caller chose, the walk goes deeper at a node exactly when the visitor   *)
(* returned e there; any other value ends the walk of that field and is    *)
(* its result, and a field is left out of its parent's mapping exactly     *)
(* when its result is e.  The fold is written out below as the             *)
(* specification describes it, for a given value `empty` that means "keep  *)
(* descending", and the claim is that reduceOverArgDefs made the calls and *)
(* returned the value of that fold with empty = e.                         *)
(***************************************************************************)
\* the wrapper kinds around a type, outermost first
RECURSIVE Wrappers(_)
Wrappers(type) ==
    IF type.kind \in {"List", "NonNull"} THEN <<type.kind>> \o Wrappers(type.ofType) ELSE <<>>

Station(by, node, wrapping) == [by |-> by, node |-> node, wrapping |-> wrapping]

\* the nodes at which the visitor is asked about one field, in order: the
\* definition of an argument before any unwrapping, the type or input field
\* as declared, and the named type under the wrappers
Stations(def, root) ==
    IF root
    THEN << Station("reduceOverArgDef", def, <<>>),
            Station("reduceOverArgType", def.type, Wrappers(def.type)),
            Station("reduceOverWrappedType", Named(def.type), Wrappers(def.type)) >>
    ELSE << Station("reduceOverArgType", def, Wrappers(def.type)),
            Station("reduceOverWrappedType", Named(def.type), Wrappers(def.type)) >>

KeptUnless(empty, entries) ==
    LET Kept(x) == x.value # empty
    IN  SelectSeq(entries, Kept)

RECURSIVE FoldedField(_, _, _, _, _, _)
RECURSIVE FoldedSet(_, _, _, _, _, _, _, _)
FoldedField(stations, j, key, v, e, empty) ==
    LET st == stations[j]
        ctx == Ctx(key, st.wrapping, e)
        r == Visitor(v, e, st.node, ctx)
        here == <<Visit(st.by, e, st.node, ctx, r)>>
    IN  IF r # empty
        THEN Walk(r, here)
        ELSE IF j < Len(stations)
        THEN Under(here, FoldedField(stations, j + 1, key, v, e, empty))
        ELSE IF st.node.kind = "InputObject"
        THEN Under(here, FoldedSet("reduceOverObjectType", st.node, st.node.fields,
                                   FALSE, ctx, v, e, empty))
        ELSE Walk(empty, here)

FoldedSet(by, node, entries, root, ctx, v, e, empty) ==
    LET walks == [i \in 1..Len(entries) |->
                    FoldedField(Stations(entries[i].value, root), 1, entries[i].key,
                                v, e, empty)]
        mapping == Obj(KeptUnless(empty, [i \in 1..Len(entries) |->
                                            Entry(entries[i].key, walks[i].value)]))
        value == Visitor(v, mapping, node, ctx)
    IN  Walk(value, VisitsOf(walks) \o <<Visit(by, mapping, node, ctx, value)>>)

Folded(empty) ==
    FoldedSet("reduceOverArgDefs", ArgDefsNode(argDefs), argDefs, TRUE,
              Ctx(Undefined, <<>>, visitor.initialNodeValue),
              visitor, visitor.initialNodeValue, empty)

Walked == walk # NotBuilt

C11_SentinelAloneContinues ==
    Walked => walk = Folded(visitor.initialNodeValue)

(***************************************************************************)
(* C11, amended.  The value that lets the walk go deeper is undefined,     *)
(* whatever initialNodeValue the caller chose: the walk goes deeper at a   *)
(* node exactly when the visitor returned undefined there; any other       *)
(* value, the initialNodeValue itself included when it is not undefined,   *)
(* ends the walk of that field and is its result, and a field is left out  *)
(* of its parent's mapping exactly when its result is undefined.           *)
(***************************************************************************)
C11_UndefinedAloneContinues ==
    Walked => walk = Folded(Undefined)

\* a caller chose null: the walk stopped at an argument definition where the
\* visitor returned null, went on to the type of one where it returned
\* undefined, and null is in the mapping handed to the visitor at the root
C11_Witness ==
    /\ Walked
    /\ visitor.initialNodeValue = Null
    /\ \E i \in 1..(Len(walk.visits) - 1) :
          /\ walk.visits[i].by = "reduceOverArgDef"
          /\ walk.visits[i].returned = Null
          /\ walk.visits[i + 1].by = "reduceOverArgDef"
    /\ \E i \in 1..(Len(walk.visits) - 1) :
          /\ walk.visits[i].by = "reduceOverArgDef"
          /\ walk.visits[i].returned = Undefined
          /\ walk.visits[i + 1].by = "reduceOverArgType"
          /\ walk.visits[i + 1].currentNode = walk.visits[i].currentNode.type
    /\ \E x \in 1..Len(walk.visits[Len(walk.visits)].childValues.entries) :
          walk.visits[Len(walk.visits)].childValues.entries[x].value = Null

(***************************************************************************)
(* C12.  As the specification states it, `empty` being the caller's        *)
(* initialNodeValue.  The fold is post-order at every field-definition     *)
(* set, the argument definitions and the fields of every input object type *)
(* the walk enters: the visitor is called on the set once, after the walks *)
(* of all its fields, with the raw set as current node and with a mapping  *)
(* that holds, in declaration order, exactly the fields whose result is    *)
(* not empty; the walk of each field starts under the field's own key and  *)
(* with no wrapper taken over from the set.                                *)
(***************************************************************************)
Visits == walk.visits

SetVisits == {j \in 1..Len(Visits) : Visits[j].by \in {"reduceOverArgDefs", "reduceOverObjectType"}}

AtRoot(j) == Visits[j].by = "reduceOverArgDefs"

\* the calls at which the walk asked about an input object type before it
\* entered it, for the set visited at j
Openings(j) ==
    {i \in 1..(j - 1) : /\ Visits[i].by = "reduceOverWrappedType"
                        /\ Visits[i].currentNode = Visits[j].currentNode
                        /\ Visits[i].ctx = Visits[j].ctx
                        /\ Visits[i].returned = Undefined}

Opening(j) ==
    IF AtRoot(j) \/ Openings(j) = {} THEN 0
    ELSE CHOOSE i \in Openings(j) : \A x \in Openings(j) : x <= i

FieldsOf(j) == IF AtRoot(j) THEN argDefs ELSE Visits[j].currentNode.fields

\* the first call of the walk of the m-th field of the set visited at j
RECURSIVE StartOf(_, _)
StartOf(j, m) ==
    LET after == IF m = 1 THEN Opening(j) ELSE StartOf(j, m - 1)
        field == FieldsOf(j)[m]
        starts == {x \in (after + 1)..(j - 1) :
                      /\ Visits[x].by = (IF AtRoot(j) THEN "reduceOverArgDef"
                                         ELSE "reduceOverArgType")
                      /\ Visits[x].currentNode = field.value
                      /\ Visits[x].ctx.key = field.key}
    IN  IF starts = {} THEN j
        ELSE CHOOSE x \in starts : \A y \in starts : x <= y

\* what the walk of the m-th field returned: what its last call returned
ResultOf(j, m) ==
    Visits[(IF m < Len(FieldsOf(j)) THEN StartOf(j, m + 1) ELSE j) - 1].returned

\* the named type of an input field, or under the wrappers of a type
NamedOf(node) == IF node.kind = "InputField" THEN Named(node.type) ELSE Named(node)

PostOrderAt(j, empty) ==
    LET fields == FieldsOf(j)
    IN  /\ AtRoot(j) => Visits[j].currentNode = ArgDefsNode(argDefs)
        /\ ~AtRoot(j) =>
              /\ Openings(j) # {}
              /\ Visits[j].currentNode.kind = "InputObject"
              /\ NamedOf(Visits[Opening(j) - 1].currentNode) = Visits[j].currentNode
        /\ \A x \in SetVisits \ {j} : AtRoot(x) = AtRoot(j) => Opening(x) # Opening(j)
        /\ \A m \in 1..Len(fields) :
              /\ StartOf(j, m) < j
              /\ m = 1 => StartOf(j, m) = Opening(j) + 1
              /\ Visits[StartOf(j, m)].ctx.wrapping =
                    (IF AtRoot(j) THEN <<>> ELSE Wrappers(fields[m].value.type))
        /\ Visits[j].childValues =
              Obj(KeptUnless(empty, [m \in 1..Len(fields) |->
                                       Entry(fields[m].key, ResultOf(j, m))]))

PostOrder(empty) ==
    /\ {j \in SetVisits : AtRoot(j)} = {Len(Visits)}
    /\ \A j \in SetVisits : PostOrderAt(j, empty)
    /\ \A i \in 1..Len(Visits) :
          (/\ Visits[i].by = "reduceOverWrappedType"
           /\ Visits[i].currentNode.kind = "InputObject"
           /\ Visits[i].returned = Undefined)
          => \E j \in SetVisits : Opening(j) = i

C12_PostOrderNonEmptyKept ==
    Walked => PostOrder(visitor.initialNodeValue)

(***************************************************************************)
(* C12, amended.  The same, the fields kept in the mapping being those     *)
(* whose result is not undefined, whatever initialNodeValue the caller     *)
(* chose.                                                                  *)
(***************************************************************************)
C12_PostOrderDefinedKept ==
    Walked => PostOrder(Undefined)

\* a caller chose null; the walk entered a box, two of whose fields have a
\* result and the others none, and the visitor was then handed the two, in
\* the order of their declaration; the result of the box is in the mapping
\* handed to the visitor at the set the box is a field of
C12_Witness ==
    /\ Walked
    /\ visitor.initialNodeValue = Null
    /\ \E j \in SetVisits :
          /\ ~AtRoot(j)
          /\ Len(Visits[j].childValues.entries) = 2
          /\ Visits[j].childValues.entries[1].key = "id"
          /\ Visits[j].childValues.entries[2].key = "ids"
          /\ ResultOf(j, 2) = Undefined
          /\ Visits[j].returned.t = "seen"
          /\ \E x \in SetVisits :
                /\ x > j
                /\ Get(Visits[x].childValues.entries, "box") = Visits[j].returned

(***************************************************************************)
(* C13.  For an argument typed as a list of input objects, not annotated   *)
(* itself, whose input object type has an annotated field: whenever the    *)
(* compiled function returns a bag for a bag that holds a list there, the  *)
(* output holds a list of the same length, and its i-th element is the     *)
(* i-th input element with transform(v, c) in place of the value v of      *)
(* every annotated scalar field and with every field that is neither       *)
(* annotated nor above an annotation as it was.                            *)
(***************************************************************************)
ElementTransformed(fields, k, in, out) ==
    /\ out.t = "object"
    /\ \A m \in 1..Len(fields) :
          LET key == fields[m].key
              def == fields[m].value
              named == Named(def.type)
          IN  IF Carries(def, k) \/ Carries(named, k)
              THEN (named.kind = "Scalar" /\ ~HasList(def.type))
                   => Get(out.entries, key)
                        = transform(Get(in.entries, key),
                                    IF Carries(def, k) THEN Annotation(def, k)
                                    ELSE Annotation(named, k))
              ELSE (named.kind = "InputObject" /\ AnyCarries(named.fields, k))
                   \/ Get(out.entries, key) = Get(in.entries, key)

C13_ListOfCompositeElementwise ==
    \A i \in Returned : \A x \in 1..Len(argDefs) :
        LET def == argDefs[x].value
            named == Named(def.type)
            in == Get(bag.entries, argDefs[x].key)
            out == Get(Output(i).entries, argDefs[x].key)
        IN  (/\ HasList(def.type)
             /\ named.kind = "InputObject"
             /\ ~Carries(def, extensionName)
             /\ ~Carries(named, extensionName)
             /\ AnyCarries(named.fields, extensionName)
             /\ in.t = "array")
            => /\ out.t = "array"
               /\ Len(out.items) = Len(in.items)
               /\ \A j \in 1..Len(in.items) :
                     ElementTransformed(named.fields, extensionName, in.items[j], out.items[j])

(***************************************************************************)
(* C14.  For a field that is annotated, at its definition or at its named  *)
(* type, and typed as an input object whose own fields carry annotations   *)
(* too: the walk of buildResolverMiddleware never enters the input object  *)
(* type and never calls the reducer on one of its annotated fields; no     *)
(* call of the compiled function hands a configuration stored inside the   *)
(* input object to the transform; and a call that returns a bag has        *)
(* invoked the transform with the field's own configuration exactly once,  *)
(* on the whole value of the field, whose result stands in its place.      *)
(***************************************************************************)
\* annotated input-object fields with annotations inside, which the walk reaches
AnnotatedBoxes ==
    {p \in FieldPaths :
        /\ Named(DefAt(argDefs, p).type).kind = "InputObject"
        /\ ~HasList(DefAt(argDefs, p).type)
        /\ AnnotatedAt(p, extensionName)
        /\ ~Shadowed(p, extensionName)
        /\ AnyCarries(Named(DefAt(argDefs, p).type).fields, extensionName)}

\* the configurations stored inside the input object type of the field
InnerConfigs(p) ==
    {c \in AnnotationsIn(Named(DefAt(argDefs, p).type).fields, extensionName) :
        c.at # <<"#Custom">>}

\* the calls of the reducer buildResolverMiddleware makes for the tree
CompileVisits == reduceOverArgDefs(Reducer(Self), argDefs, Null).visits

C14_AnnotatedNodeHaltsDescent ==
    \A p \in AnnotatedBoxes :
    \A named \in {Named(DefAt(argDefs, p).type)} :
    \A c \in {ConfigAt(p, extensionName)} :
        /\ Built =>
              \A visits \in {CompileVisits} : \A x \in 1..Len(visits) :
                  /\ ~(/\ visits[x].by = "reduceOverObjectType"
                       /\ visits[x].currentNode = named)
                  /\ \A m \in 1..Len(named.fields) :
                        Carries(named.fields[m].value, extensionName)
                        => visits[x].currentNode # named.fields[m].value
        /\ \A i \in 1..Len(results) : \A j \in 1..Len(results[i].calls) :
              results[i].calls[j].config \notin InnerConfigs(p)
        /\ \A i \in Returned :
              /\ Cardinality({j \in 1..Len(results[i].calls) :
                                 results[i].calls[j].config = c}) = 1
              /\ \E j \in 1..Len(results[i].calls) :
                    results[i].calls[j] = Invocation(ValueAt(bag, p), c)
              /\ ValueAt(Output(i), p) = transform(ValueAt(bag, p), c)

\* a bag came back in which a whole box was replaced by the transform of its
\* annotated field, a field inside the box being annotated as well
C14_Witness ==
    \E i \in Returned : \E p \in AnnotatedBoxes :
        /\ Carries(DefAt(argDefs, p), extensionName)
        /\ \E m \in 1..Len(Named(DefAt(argDefs, p).type).fields) :
              Carries(Named(DefAt(argDefs, p).type).fields[m].value, extensionName)
        /\ ValueAt(bag, p).t = "object"
        /\ ValueAt(Output(i), p) = transform(ValueAt(bag, p), ConfigAt(p, extensionName))

(***************************************************************************)
(* C15.  For a nullable field typed as an input object, not annotated      *)
(* itself, whose input object type has an annotated field: a call on a bag *)
(* in which the field is null or missing, the bag that holds the field     *)
(* being there, returns a bag, and the field is null or missing in it as   *)
(* it was in the input.                                                    *)
(***************************************************************************)
\* the bag that holds the field at the path is present in the request
HeldAt(path) ==
    Len(path) = 1 \/ ValueAt(bag, SubSeq(path, 1, Len(path) - 1)).t = "object"

OptionalBoxes ==
    {p \in FieldPaths :
        /\ DefAt(argDefs, p).type.kind = "InputObject"
        /\ ~AnnotatedAt(p, extensionName)
        /\ ~Shadowed(p, extensionName)
        /\ AnyCarries(DefAt(argDefs, p).type.fields, extensionName)}

C15_AbsentCompositePropagates ==
    \A i \in 1..Len(results) : \A p \in OptionalBoxes :
        (HeldAt(p) /\ IsNullish(ValueAt(bag, p)))
        => /\ ~IsThrown(results[i].value)
           /\ ValueAt(Output(i), p) = ValueAt(bag, p)

====
